---- MODULE Spec2Model ----
(***************************************************************************)
(* Turn-taking controller of the NeuroBuddy companion screen               *)
(* (Companion.tsx, useTTS.ts, useSpeechRecognition.ts, store/index.ts,     *)
(* lib/routines.ts), modelled as a state machine over the browser event    *)
(* loop.  One action is one macrotask: an event handler together with      *)
(* every promise continuation (microtask) it makes runnable.  React state  *)
(* is kept as its latest value; the values captured by long-lived          *)
(* closures (useCallback results, timer callbacks) are kept as explicit    *)
(* snapshots taken by Render.                                              *)
(***************************************************************************)
EXTENDS Integers, Sequences, FiniteSets, TLC

(* ---------------- bounds of the model ---------------- *)
\* Inputs of one run: recognition results, touch gestures, microphone button
\* presses, failures of the speech services, spontaneous recognizer ends.
MaxEvents == 2
MaxLikes  == 1          \* length of childProfile.likes

(* ---------------- strings ---------------- *)
\* A string is a sequence of one-character strings.
UpperToLower ==
  [c \in {"A","B","C","D","E","F","G","H","I","J","K","L","M","N","O","P","Q",
          "R","S","T","U","V","W","X","Y","Z"} |->
     CASE c = "A" -> "a" [] c = "B" -> "b" [] c = "C" -> "c" [] c = "D" -> "d"
       [] c = "E" -> "e" [] c = "F" -> "f" [] c = "G" -> "g" [] c = "H" -> "h"
       [] c = "I" -> "i" [] c = "J" -> "j" [] c = "K" -> "k" [] c = "L" -> "l"
       [] c = "M" -> "m" [] c = "N" -> "n" [] c = "O" -> "o" [] c = "P" -> "p"
       [] c = "Q" -> "q" [] c = "R" -> "r" [] c = "S" -> "s" [] c = "T" -> "t"
       [] c = "U" -> "u" [] c = "V" -> "v" [] c = "W" -> "w" [] c = "X" -> "x"
       [] c = "Y" -> "y" [] c = "Z" -> "z"]

toLowerCase(s) ==
  [i \in 1..Len(s) |-> IF s[i] \in DOMAIN UpperToLower THEN UpperToLower[s[i]] ELSE s[i]]

\* String.prototype.includes: p occurs in s as a contiguous substring.
includes(s, p) ==
  \E k \in 0..(Len(s) - Len(p)) : \A j \in 1..Len(p) : s[k + j] = p[j]

(* ---------------- routine catalog (lib/routines.ts) ---------------- *)
ROUTINES ==
  << [id |-> "coat", name |-> "Put On Coat", nSteps |-> 6,
      triggerPhrases |-> <<<<"c","o","a","t">>,
        <<"j","a","c","k","e","t">>,
        <<"g","o","i","n","g"," ","o","u","t","s","i","d","e">>,
        <<"c","o","l","d">>,
        <<"l","e","a","v","i","n","g">>,
        <<"p","u","t"," ","o","n">>,
        <<"g","e","t"," ","d","r","e","s","s","e","d">>>>],
     [id |-> "teeth", name |-> "Brush Teeth", nSteps |-> 7,
      triggerPhrases |-> <<<<"t","e","e","t","h">>,
        <<"b","r","u","s","h">>,
        <<"t","o","o","t","h","b","r","u","s","h">>,
        <<"t","o","o","t","h","p","a","s","t","e">>,
        <<"b","e","d","t","i","m","e">>,
        <<"m","o","r","n","i","n","g"," ","r","o","u","t","i","n","e">>>>],
     [id |-> "shoes", name |-> "Put On Shoes", nSteps |-> 6,
      triggerPhrases |-> <<<<"s","h","o","e","s">>,
        <<"s","n","e","a","k","e","r","s">>,
        <<"b","o","o","t","s">>,
        <<"s","a","n","d","a","l","s">>,
        <<"f","o","o","t","w","e","a","r">>,
        <<"g","o","i","n","g"," ","o","u","t">>>>],
     [id |-> "after-school", name |-> "After-School Wind-Down", nSteps |-> 6,
      triggerPhrases |-> <<<<"a","f","t","e","r"," ","s","c","h","o","o","l">>,
        <<"b","a","c","k"," ","f","r","o","m"," ","s","c","h","o","o","l">>,
        <<"g","o","t"," ","h","o","m","e">>,
        <<"h","o","m","e"," ","f","r","o","m"," ","s","c","h","o","o","l">>,
        <<"h","o","w"," ","w","a","s"," ","y","o","u","r"," ","d","a","y">>,
        <<"j","u","s","t"," ","g","o","t"," ","b","a","c","k">>,
        <<"f","i","n","i","s","h","e","d"," ","s","c","h","o","o","l">>>>],
     [id |-> "bedtime", name |-> "Bedtime Calm", nSteps |-> 7,
      triggerPhrases |-> <<<<"b","e","d","t","i","m","e">>,
        <<"g","o","i","n","g"," ","t","o"," ","s","l","e","e","p">>,
        <<"s","l","e","e","p","y">>,
        <<"n","i","g","h","t"," ","t","i","m","e">>,
        <<"t","i","m","e"," ","f","o","r"," ","b","e","d">>,
        <<"g","o"," ","t","o"," ","b","e","d">>,
        <<"t","i","r","e","d">>,
        <<"r","e","a","d","y"," ","f","o","r"," ","s","l","e","e","p">>>>],
     [id |-> "reading", name |-> "Reading Time", nSteps |-> 6,
      triggerPhrases |-> <<<<"r","e","a","d">>,
        <<"r","e","a","d","i","n","g">>,
        <<"s","t","o","r","y"," ","t","i","m","e">>,
        <<"b","o","o","k">>,
        <<"l","e","t","'","s"," ","r","e","a","d">>,
        <<"t","i","m","e"," ","t","o"," ","r","e","a","d">>,
        <<"r","e","a","d"," ","t","o","g","e","t","h","e","r">>,
        <<"r","e","a","d"," ","a"," ","b","o","o","k">>>>] >>

NoRoutine == 0          \* currentRoutine = null

\* The search with the later routine winning over the earlier one.
findRoutineByTrigger_LastMatch(text) ==
  LET lowerText == toLowerCase(text)
      hit(r) == \E p \in 1..Len(ROUTINES[r].triggerPhrases) :
                   includes(lowerText, toLowerCase(ROUTINES[r].triggerPhrases[p]))
  IN IF \E r \in 1..Len(ROUTINES) : hit(r)
     THEN CHOOSE r \in 1..Len(ROUTINES) : hit(r) /\ \A q \in (r + 1)..Len(ROUTINES) : ~hit(q)
     ELSE NoRoutine

\* Index (1-based, catalog order) of the first routine one of whose trigger
\* phrases is contained in the lower-cased text; NoRoutine if there is none.
findRoutineByTrigger(text) ==
  LET lowerText == toLowerCase(text)
      hit(r) == \E p \in 1..Len(ROUTINES[r].triggerPhrases) :
                   includes(lowerText, toLowerCase(ROUTINES[r].triggerPhrases[p]))
  IN IF \E r \in 1..Len(ROUTINES) : hit(r)
     THEN CHOOSE r \in 1..Len(ROUTINES) : hit(r) /\ \A q \in 1..(r - 1) : ~hit(q)
     ELSE NoRoutine

StepsLength(r) == ROUTINES[r].nSteps

\* What the recognizer can deliver in the model (already trimmed, non-empty).
Utterances ==
  << <<"I"," ","w","a","n","t"," ","t","o"," ","b","r","u","s","h"," ","m","y"," ","t","e","e","t","h">>,
     <<"I"," ","d","i","d"," ","i","t">> >>

UtteranceIds == 1..Len(Utterances)

\* findRoutineByTrigger applied to each utterance of the model.
TriggerOf == [u \in UtteranceIds |-> findRoutineByTrigger(Utterances[u])]

\* The example phrases of the README, "Routine Triggers", each with the id of
\* the routine it is listed under.
ReadmeTriggers ==
  << [text |-> <<"p","u","t"," ","o","n"," ","m","y"," ","c","o","a","t">>,
      id |-> "coat"],
     [text |-> <<"n","e","e","d"," ","m","y"," ","c","o","a","t">>,
      id |-> "coat"],
     [text |-> <<"j","a","c","k","e","t">>,
      id |-> "coat"],
     [text |-> <<"b","r","u","s","h"," ","m","y"," ","t","e","e","t","h">>,
      id |-> "teeth"],
     [text |-> <<"b","r","u","s","h","i","n","g"," ","t","e","e","t","h">>,
      id |-> "teeth"],
     [text |-> <<"t","o","o","t","h","b","r","u","s","h">>,
      id |-> "teeth"],
     [text |-> <<"p","u","t"," ","o","n"," ","s","h","o","e","s">>,
      id |-> "shoes"],
     [text |-> <<"n","e","e","d"," ","m","y"," ","s","h","o","e","s">>,
      id |-> "shoes"],
     [text |-> <<"g","e","t","t","i","n","g"," ","m","y"," ","s","h","o","e","s">>,
      id |-> "shoes"] >>

\* Further texts: mixed case, a phrase inside a sentence, phrases of two
\* routines, texts with no phrase, the empty text.
OtherTexts ==
  { <<"B","e","d","t","i","m","e">>,
    <<"B","E","D","T","I","M","E">>,
    <<"I","t"," ","i","s"," ","b","e","d","t","i","m","e"," ","n","o","w">>,
    <<"I"," ","a","m"," ","g","o","i","n","g"," ","o","u","t">>,
    <<"G","o","i","n","g"," ","O","u","t","s","i","d","e">>,
    <<"T","i","r","e","d">>,
    <<"t","i","m","e"," ","t","o"," ","r","e","a","d"," ","a"," ","b","o","o","k">>,
    <<"L","e","t","'","s"," ","R","e","a","d">>,
    <<"h","e","l","l","o">>,
    <<"I"," ","d","i","d"," ","i","t">>,
    <<"a","l","l"," ","d","o","n","e">>,
    <<"c","o"," ","a","t">>,
    <<>>,
    <<"S","N","E","A","K","E","R","S">>,
    <<"m","y"," ","b","o","o","t","s">>,
    <<"A","f","t","e","r"," ","S","c","h","o","o","l">>,
    <<"n","i","g","h","t"," ","t","i","m","e">>,
    <<"s","t","o","r","y"," ","t","i","m","e">>,
    <<"g","o","t"," ","h","o","m","e">> }

\* Every trigger phrase of the catalog, as written and in upper case.
LowerToUpper == [c \in {UpperToLower[u] : u \in DOMAIN UpperToLower} |->
                   CHOOSE u \in DOMAIN UpperToLower : UpperToLower[u] = c]
toUpperCase(s) ==
  [i \in 1..Len(s) |-> IF s[i] \in DOMAIN LowerToUpper THEN LowerToUpper[s[i]] ELSE s[i]]
CatalogPhrases ==
  UNION {{ROUTINES[r].triggerPhrases[p] : p \in 1..Len(ROUTINES[r].triggerPhrases)}
           : r \in 1..Len(ROUTINES)}
Texts ==
  CatalogPhrases \cup {toUpperCase(p) : p \in CatalogPhrases} \cup OtherTexts
    \cup {ReadmeTriggers[k].text : k \in 1..Len(ReadmeTriggers)}
    \cup {Utterances[u] : u \in UtteranceIds}

(* ---------------- state ---------------- *)
VARIABLES
  \* zustand store (store/index.ts)
  currentRoutine, currentStepIndex, frustrationLevel, messages,
  \* Companion useState
  isProcessing, showHelpAlert, micActive, displayTranscript,
  \* Companion useRef
  transcriptQueue, isProcessingRef, frustrationCount, retryTimers, isMounted,
  \* useTTS
  isSpeaking, isLoading, ttsError, audioRef, audioUrlRef, abortRef, speaks,
  \* the browser's blob URL store: the object URLs created and not revoked
  liveUrls,
  \* useSpeechRecognition
  isListening, shouldBeListening, recError,
  \* closures and pending callbacks
  cur, old, handlers, rendered, greet, touchTimers,
  \* zustand store: the avatar shown
  avatarState,
  \* environment
  likes,
  \* bookkeeping of the run
  nextTid, nextSid, events, enqueued, turns, results, outcomes, spoken,
  \* the caregiver's last press of the microphone button turned it off
  userMicOff,
  \* startListening() was called and neither stopListening() nor a teardown
  \* of the recognition effect came after it
  listenWanted,
  \* a pure function under test: its input and, once applied, its result
  probe,
  \* an API route module on the server: its rateLimitMap, the clock, the
  \* response to the latest request
  server

controller ==
  << currentRoutine, currentStepIndex, frustrationLevel, messages,
     isProcessing, showHelpAlert, micActive, displayTranscript,
     transcriptQueue, isProcessingRef, frustrationCount, retryTimers, isMounted,
     isSpeaking, isLoading, ttsError, audioRef, audioUrlRef, abortRef, speaks,
     isListening, shouldBeListening,
     cur, old, handlers, rendered, greet, touchTimers, avatarState, likes,
     nextTid, nextSid, events, enqueued, turns, results, outcomes, spoken,
     liveUrls, recError, userMicOff, listenWanted >>

vars == <<controller, probe, server>>

\* The whole state as one record, so that a handler can be written as a
\* composition of the functions it calls.
Mem ==
  [ currentRoutine |-> currentRoutine, currentStepIndex |-> currentStepIndex,
    frustrationLevel |-> frustrationLevel, messages |-> messages,
    isProcessing |-> isProcessing, showHelpAlert |-> showHelpAlert,
    micActive |-> micActive, displayTranscript |-> displayTranscript,
    transcriptQueue |-> transcriptQueue, isProcessingRef |-> isProcessingRef,
    frustrationCount |-> frustrationCount, retryTimers |-> retryTimers,
    isMounted |-> isMounted,
    isSpeaking |-> isSpeaking, isLoading |-> isLoading, ttsError |-> ttsError,
    audioRef |-> audioRef, audioUrlRef |-> audioUrlRef, abortRef |-> abortRef,
    speaks |-> speaks,
    isListening |-> isListening, shouldBeListening |-> shouldBeListening,
    cur |-> cur, old |-> old, handlers |-> handlers, rendered |-> rendered,
    greet |-> greet, touchTimers |-> touchTimers, avatarState |-> avatarState,
    likes |-> likes,
    nextTid |-> nextTid, nextSid |-> nextSid, events |-> events,
    enqueued |-> enqueued, turns |-> turns, results |-> results,
    outcomes |-> outcomes, spoken |-> spoken,
    liveUrls |-> liveUrls, recError |-> recError, userMicOff |-> userMicOff,
    listenWanted |-> listenWanted ]

(* ---------------- avatar derivation (Companion.tsx) ---------------- *)
TimesOfDay == {"morning", "afternoon", "evening", "night"}   \* getTimeOfDay()
FrustrationLevels == {"none", "mild", "moderate", "high"}

\* What getAvatarState reads: the state captured by its closure and the clock.
AvatarInputs ==
  [showHelpAlert : BOOLEAN, isSpeaking : BOOLEAN, isListening : BOOLEAN,
   isProcessing : BOOLEAN, timeOfDay : TimesOfDay,
   frustrationLevel : FrustrationLevels]

\* The derivation with the speaking test before the help alert test.
getAvatarState_SpeakingFirst(c) ==
  IF c.isSpeaking THEN "talking"
  ELSE IF c.showHelpAlert THEN "waving"
  ELSE IF c.isListening /\ ~c.isSpeaking THEN "listening"
  ELSE IF c.isProcessing THEN "thinking"
  ELSE IF c.timeOfDay = "night" THEN "sleepy"
  ELSE IF c.frustrationLevel = "high" THEN "concerned"
  ELSE IF c.frustrationLevel = "moderate" THEN "encouraging"
  ELSE "idle"

getAvatarState(c) ==
  IF c.showHelpAlert THEN "waving"
  ELSE IF c.isSpeaking THEN "talking"
  ELSE IF c.isListening /\ ~c.isSpeaking THEN "listening"
  ELSE IF c.isProcessing THEN "thinking"
  ELSE IF c.timeOfDay = "night" THEN "sleepy"
  ELSE IF c.frustrationLevel = "high" THEN "concerned"
  ELSE IF c.frustrationLevel = "moderate" THEN "encouraging"
  ELSE "idle"

\* The clock of the runs of the controller: an afternoon.
TimeOfDay == "afternoon"

\* The values getAvatarState's closure holds after the latest commit:
\* isSpeaking and isListening as rendered, the rest at their latest value.
AvatarDeps(m) ==
  [showHelpAlert |-> m.showHelpAlert, isSpeaking |-> m.rendered.isSpeaking,
   isListening |-> m.rendered.isListening, isProcessing |-> m.isProcessing,
   timeOfDay |-> TimeOfDay, frustrationLevel |-> m.frustrationLevel]

\* "Update the avatar's state whenever dependencies change": the effect runs
\* in the commit in which getAvatarState was re-created.
avatarEffect(before, after) ==
  IF after.isMounted /\ AvatarDeps(after) # AvatarDeps(before)
  THEN [after EXCEPT !.avatarState = getAvatarState(AvatarDeps(after))]
  ELSE after

\* The state m left by a handler is committed: the avatar effect of the
\* render that follows runs, and the result (evaluated once) is assigned
\* field by field.
Commit(m) ==
  \E n \in {avatarEffect(Mem, m)} :
    /\ currentRoutine' = n.currentRoutine
    /\ currentStepIndex' = n.currentStepIndex
    /\ frustrationLevel' = n.frustrationLevel
    /\ messages' = n.messages
    /\ isProcessing' = n.isProcessing
    /\ showHelpAlert' = n.showHelpAlert
    /\ micActive' = n.micActive
    /\ displayTranscript' = n.displayTranscript
    /\ transcriptQueue' = n.transcriptQueue
    /\ isProcessingRef' = n.isProcessingRef
    /\ frustrationCount' = n.frustrationCount
    /\ retryTimers' = n.retryTimers
    /\ isMounted' = n.isMounted
    /\ isSpeaking' = n.isSpeaking
    /\ isLoading' = n.isLoading
    /\ ttsError' = n.ttsError
    /\ audioRef' = n.audioRef
    /\ audioUrlRef' = n.audioUrlRef
    /\ abortRef' = n.abortRef
    /\ speaks' = n.speaks
    /\ isListening' = n.isListening
    /\ shouldBeListening' = n.shouldBeListening
    /\ cur' = n.cur
    /\ old' = n.old
    /\ handlers' = n.handlers
    /\ rendered' = n.rendered
    /\ greet' = n.greet
    /\ touchTimers' = n.touchTimers
    /\ avatarState' = n.avatarState
    /\ likes' = n.likes
    /\ nextTid' = n.nextTid
    /\ nextSid' = n.nextSid
    /\ events' = n.events
    /\ enqueued' = n.enqueued
    /\ turns' = n.turns
    /\ results' = n.results
    /\ outcomes' = n.outcomes
    /\ spoken' = n.spoken
    /\ liveUrls' = n.liveUrls
    /\ recError' = n.recError
    /\ userMicOff' = n.userMicOff
    /\ listenWanted' = n.listenWanted
    /\ probe' = probe
    /\ server' = server

(* ---------------- zustand store actions (store/index.ts) ---------------- *)
startRoutine(m, routine) ==
  [m EXCEPT !.currentRoutine = routine, !.currentStepIndex = 0,
            !.frustrationLevel = "none"]

\* nextStep without its guard.
nextStep_Unguarded(m) == [m EXCEPT !.currentStepIndex = @ + 1]

nextStep(m) ==
  IF m.currentRoutine # NoRoutine
     /\ m.currentStepIndex < StepsLength(m.currentRoutine) - 1
  THEN [m EXCEPT !.currentStepIndex = @ + 1]
  ELSE m

endRoutine(m) ==
  [m EXCEPT !.currentRoutine = NoRoutine, !.currentStepIndex = 0,
            !.frustrationLevel = "none"]

\* setFrustrationLevel with the help alert tied to the level.
setFrustrationLevel_AlertFromLevel(m, level) ==
  [m EXCEPT !.frustrationLevel = level, !.showHelpAlert = (level = "high")]

setFrustrationLevel(m, level) == [m EXCEPT !.frustrationLevel = level]

addMessage(m, role, content) ==
  [m EXCEPT !.messages = Append(@, [role |-> role, content |-> content])]

(* ---------------- texts handed to speak() ---------------- *)
\* kind says which template built the text; r and i name the routine and the
\* step whose name/instruction the template interpolates (0 when unused).
Text(kind, r, i) == [kind |-> kind, r |-> r, i |-> i]
Greeting(r)      == Text("routineGreeting", r, 0)  \* ...${name}... ${steps[0].instruction}
Reply            == Text("reply", 0, 0)            \* data.message
ReplyNext(r, i)  == Text("replyNext", r, i)        \* data.message + ' ' + steps[i].instruction
Filler           == Text("filler", 0, 0)           \* "Hold on, I'm thinking..."
OfflinePhrase    == Text("offline", 0, 0)          \* one of OFFLINE_PHRASES
HelpRequest      == Text("help", 0, 0)
Distraction      == Text("distract", 0, 0)
TouchResponse    == Text("touch", 0, 0)
FullGreeting     == Text("fullGreeting", 0, 0)

NoAwaiter == 0          \* the promise returned by speak() is not awaited

(* ---------------- useTTS (hooks/useTTS.ts) ---------------- *)
\* speaks holds one frame per speak() call whose promise is not settled:
\*   stage "fetch"     awaiting /api/tts (fetch or response.blob())
\*         "playing"   HTMLAudioElement playing, awaiting onended/onerror
\*         "orphan"    audio paused by a later call: no event will come
\*         "browser"   SpeechSynthesisUtterance speaking
\*         "cancelled" utterance removed by speechSynthesis.cancel(),
\*                     its error event not yet delivered
Frame(sid, text, awaiter, stage) ==
  [sid |-> sid, text |-> text, awaiter |-> awaiter, stage |-> stage]

\* cleanupAudioUrl forgetting the URL without revoking it.
cleanupAudioUrl_RefOnly(m) == [m EXCEPT !.audioUrlRef = 0]

\* An object URL is named by the speak() call that made it; 0 is null.
\* (The argument is bound once, as x.)
cleanupAudioUrl(m) ==
  CHOOSE after \in
    { IF x.audioUrlRef # 0
      THEN [x EXCEPT !.liveUrls = @ \ {x.audioUrlRef}, !.audioUrlRef = 0]
      ELSE x : x \in {m} } : TRUE

speakWithBrowser(m, f) ==
  LET speaking  == {x \in m.speaks : x.stage = "browser"}
      cancelled == {[x EXCEPT !.stage = "cancelled"] : x \in speaking}
      rest      == {x \in m.speaks : x.stage # "browser" /\ x.sid # f.sid}
  IN [m EXCEPT !.speaks = rest \cup cancelled
                            \cup {Frame(f.sid, f.text, f.awaiter, "browser")},
               !.isSpeaking = TRUE]

\* The synchronous part of speakWithElevenLabs up to its fetch, followed by
\* the continuation of the call whose fetch it aborted (speakWithElevenLabs's
\* catch, then speak's inner catch: local synthesis of the aborted text).
speakWithElevenLabs(m, f) ==
  CHOOSE after \in
    { LET aborted == {x \in m0.speaks : x.stage = "fetch" /\ x.sid = m0.abortRef}
          paused  == {x \in m0.speaks : x.stage = "playing" /\ x.sid = m0.audioRef}
          m1 == [cleanupAudioUrl(m0) EXCEPT
                   !.audioRef = 0,
                   !.abortRef = f.sid,
                   !.isLoading = TRUE,
                   !.speaks = ((@ \ paused) \ aborted)
                              \cup {[x EXCEPT !.stage = "orphan"] : x \in paused}
                              \cup {Frame(f.sid, f.text, f.awaiter, "fetch")}]
      IN IF aborted = {} THEN m1
         ELSE speakWithBrowser(cleanupAudioUrl([m1 EXCEPT !.isLoading = FALSE]),
                               CHOOSE x \in aborted : TRUE)
      : m0 \in {m} } : TRUE

\* stop(): abort, pause, revoke, cancel local synthesis, clear the flags; then
\* the continuation of the call whose fetch it aborted, as in
\* speakWithElevenLabs above.
stop(m) ==
  LET aborted == {x \in m.speaks : x.stage = "fetch" /\ x.sid = m.abortRef}
      paused  == {x \in m.speaks : x.stage = "playing" /\ x.sid = m.audioRef}
      talking == {x \in m.speaks : x.stage = "browser"}
      m1 == [cleanupAudioUrl(m) EXCEPT
               !.audioRef = 0,
               !.isSpeaking = FALSE,
               !.isLoading = FALSE,
               !.speaks = (((@ \ paused) \ aborted) \ talking)
                          \cup {[x EXCEPT !.stage = "orphan"] : x \in paused}
                          \cup {[x EXCEPT !.stage = "cancelled"] : x \in talking}]
  IN IF aborted = {} THEN m1
     ELSE speakWithBrowser(m1, CHOOSE x \in aborted : TRUE)

speak(m, text, awaiter) ==
  speakWithElevenLabs([m EXCEPT !.ttsError = FALSE, !.nextSid = @ + 1,
                                !.spoken = Append(@, text)],
                      Frame(m.nextSid, text, awaiter, "fetch"))

(* ---------------- Companion (components/Companion.tsx) ---------------- *)
\* The values a processQueue closure sees: its own isSpeaking, and through
\* the processUserInput of the same render, isProcessing and the store's
\* routine and cursor as they were at that render.
Snap(m) ==
  [isSpeaking |-> m.isSpeaking, isProcessing |-> m.isProcessing,
   currentRoutine |-> m.currentRoutine, currentStepIndex |-> m.currentStepIndex]

\* handleFrustrationEscalation with the tiers falling through: at 4 and above
\* the distraction of the tier below is issued as well.
handleFrustrationEscalation_AllTiers(m, count) ==
  LET m1 == IF count >= 3 /\ m.likes > 0 THEN speak(m, Distraction, NoAwaiter) ELSE m
  IN IF count >= 4
     THEN setFrustrationLevel(
            speak([m1 EXCEPT !.showHelpAlert = TRUE], HelpRequest, NoAwaiter), "high")
     ELSE IF count >= 3
     THEN setFrustrationLevel(m1, "moderate")
     ELSE IF count >= 1
     THEN setFrustrationLevel(m, "mild")
     ELSE setFrustrationLevel(m, "none")

handleFrustrationEscalation(m, count) ==
  IF count >= 4
  THEN setFrustrationLevel(
         speak([m EXCEPT !.showHelpAlert = TRUE], HelpRequest, NoAwaiter), "high")
  ELSE IF count >= 3
  THEN setFrustrationLevel(
         IF m.likes > 0 THEN speak(m, Distraction, NoAwaiter) ELSE m, "moderate")
  ELSE IF count >= 1
  THEN setFrustrationLevel(m, "mild")
  ELSE setFrustrationLevel(m, "none")

\* One invocation of processUserInput that is suspended at an await.
Handler(t, snap, pc, branch, progress, frust) ==
  [tid |-> t.id, utt |-> t.utt, snap |-> snap, pc |-> pc, branch |-> branch,
   progress |-> progress, frust |-> frust]

Turn(m, snap, t, branch) ==
  [tid |-> t.id, utt |-> t.utt, speaking |-> m.isSpeaking,
   liveRoutine |-> m.currentRoutine, liveStep |-> m.currentStepIndex,
   reqRoutine |-> snap.currentRoutine, reqStep |-> snap.currentStepIndex,
   behind |-> Len(m.transcriptQueue), branch |-> branch]

RECURSIVE processQueue(_, _)

\* processQueueResume with `isProcessingRef.current = false` left out.
processQueueResume_NoRelease(m, snap) ==
  LET m1 == [m EXCEPT !.isProcessing = FALSE]
  IN IF Len(m1.transcriptQueue) > 0 /\ ~snap.isSpeaking
     THEN processQueue(m1, snap)
     ELSE m1

\* processQueue after `await processUserInput(transcript)`.
processQueueResume(m, snap) ==
  LET m1 == [m EXCEPT !.isProcessingRef = FALSE, !.isProcessing = FALSE]
  IN IF Len(m1.transcriptQueue) > 0 /\ ~snap.isSpeaking
     THEN processQueue(m1, snap)
     ELSE m1

\* processUserInput from its entry to its first await (or early return).
processUserInput(m, snap, t) ==
  IF snap.isProcessing
  THEN processQueueResume([m EXCEPT !.turns = Append(@, Turn(m, snap, t, "dropped"))], snap)
  ELSE LET m1 == addMessage([m EXCEPT !.isProcessing = TRUE], "user", t.utt)
           routine == IF snap.currentRoutine = NoRoutine
                      THEN TriggerOf[t.utt] ELSE NoRoutine
       IN IF routine # NoRoutine
          THEN LET m2 == addMessage(startRoutine(m1, routine), "assistant", Greeting(routine))
                   m3 == [m2 EXCEPT
                            !.isProcessing = FALSE,
                            !.turns = Append(@, Turn(m, snap, t, "routine")),
                            !.handlers = @ \cup {Handler(t, snap, "speak", "routine", FALSE, FALSE)}]
               IN speak(m3, Greeting(routine), t.id)
          ELSE [m1 EXCEPT
                  !.turns = Append(@, Turn(m, snap, t, "chat")),
                  !.handlers = @ \cup {Handler(t, snap, "fetch", "chat", FALSE, FALSE)}]

\* processQueue with `isProcessingRef.current = true` left out (the busy state
\* kept in the useState value only).
processQueue_NoBusySet(m, snap) ==
  IF m.isProcessingRef \/ Len(m.transcriptQueue) = 0
  THEN m
  ELSE processUserInput(
         [m EXCEPT !.transcriptQueue = Tail(@),
                   !.isProcessing = TRUE],
         snap, Head(m.transcriptQueue))

\* processQueue with the busy test made on the isProcessing value of the
\* closure in place of the ref.
processQueue_StateGuard(m, snap) ==
  IF snap.isProcessing \/ Len(m.transcriptQueue) = 0
  THEN m
  ELSE processUserInput(
         [m EXCEPT !.transcriptQueue = Tail(@),
                   !.isProcessingRef = TRUE,
                   !.isProcessing = TRUE],
         snap, Head(m.transcriptQueue))

\* processQueue with pop() in place of shift().
processQueue_Pop(m, snap) ==
  IF m.isProcessingRef \/ Len(m.transcriptQueue) = 0
  THEN m
  ELSE processUserInput(
         [m EXCEPT !.transcriptQueue = SubSeq(@, 1, Len(@) - 1),
                   !.isProcessingRef = TRUE,
                   !.isProcessing = TRUE],
         snap, m.transcriptQueue[Len(m.transcriptQueue)])

processQueue(m, snap) ==
  IF m.isProcessingRef \/ Len(m.transcriptQueue) = 0
  THEN m
  ELSE processUserInput(
         [m EXCEPT !.transcriptQueue = Tail(@),
                   !.isProcessingRef = TRUE,
                   !.isProcessing = TRUE],
         snap, Head(m.transcriptQueue))

\* `finally` of processUserInput.
finallyBlock(m) == IF m.isMounted THEN [m EXCEPT !.isProcessing = FALSE] ELSE m

\* What lines 290-300 did in one turn: the counter before and after, the
\* level and the alert they left, and what handleFrustrationEscalation said.
Outcome(h, before, after) ==
  [tid |-> h.tid, reset |-> h.progress, frust |-> h.frust,
   preCount |-> before.frustrationCount, postCount |-> after.frustrationCount,
   preLevel |-> before.frustrationLevel, level |-> after.frustrationLevel,
   preHelp |-> before.showHelpAlert, help |-> after.showHelpAlert,
   likes |-> before.likes,
   said |-> SubSeq(after.spoken, Len(before.spoken) + 1, Len(after.spoken))]

\* processUserInputResume with the frustration signal looked at only when
\* the progress branch was not taken (`else if`).
processUserInputResume_ElseIf(m, h) ==
  LET done == [m EXCEPT !.handlers = @ \ {h}]
  IN IF h.branch = "routine"
     THEN processQueueResume(done, h.snap)
     ELSE IF h.branch = "chat"
     THEN LET m2 == IF h.progress
                    THEN setFrustrationLevel([done EXCEPT !.frustrationCount = 0], "none")
                    ELSE IF h.frust
                    THEN handleFrustrationEscalation(
                           [done EXCEPT !.frustrationCount = @ + 1],
                           done.frustrationCount + 1)
                    ELSE done
              m3 == [m2 EXCEPT !.outcomes = Append(@, Outcome(h, m, m2))]
          IN processQueueResume(finallyBlock(m3), h.snap)
     ELSE processQueueResume(finallyBlock(done), h.snap)

\* processUserInput after its awaited speak() has resolved, to its return,
\* and on into the processQueue invocation awaiting it.
processUserInputResume(m, h) ==
  LET done == [m EXCEPT !.handlers = @ \ {h}]
  IN IF h.branch = "routine"
     THEN processQueueResume(done, h.snap)
     ELSE IF h.branch = "chat"
     THEN LET m1 == IF h.progress
                    THEN setFrustrationLevel([done EXCEPT !.frustrationCount = 0], "none")
                    ELSE done
              m2 == IF h.frust
                    THEN handleFrustrationEscalation(
                           [m1 EXCEPT !.frustrationCount = @ + 1],
                           m1.frustrationCount + 1)
                    ELSE m1
              m3 == [m2 EXCEPT !.outcomes = Append(@, Outcome(h, m, m2))]
          IN processQueueResume(finallyBlock(m3), h.snap)
     ELSE processQueueResume(finallyBlock(done), h.snap)

\* Settling of the promise returned by speak(): resumes whoever awaits it.
Resume(m, awaiter) ==
  IF \E h \in m.handlers : h.tid = awaiter /\ h.pc = "speak"
  THEN processUserInputResume(m, CHOOSE h \in m.handlers : h.tid = awaiter /\ h.pc = "speak")
  ELSE m

\* `catch` of processUserInput up to its await.
\* The catch block without clearTimeout(retryTimeoutRef.current).
catchBlock_NoClear(m, h) ==
  LET h1 == [h EXCEPT !.pc = "speak", !.branch = "catch"]
      m1 == [m EXCEPT !.retryTimers = @ + 1,
                      !.handlers = (@ \ {h}) \cup {h1}]
  IN speak(m1, Filler, h.tid)

\* The catch block appending the offline phrase at once, next to arming the
\* timer.
catchBlock_AppendNow(m, h) ==
  LET cleared == IF m.retryTimers > 0 THEN m.retryTimers - 1 ELSE 0
      h1 == [h EXCEPT !.pc = "speak", !.branch = "catch"]
      m1 == [m EXCEPT !.retryTimers = cleared + 1,
                      !.handlers = (@ \ {h}) \cup {h1}]
  IN speak(addMessage(m1, "assistant", OfflinePhrase), Filler, h.tid)

catchBlock(m, h) ==
  LET cleared == IF m.retryTimers > 0 THEN m.retryTimers - 1 ELSE 0
      h1 == [h EXCEPT !.pc = "speak", !.branch = "catch"]
      m1 == [m EXCEPT !.retryTimers = cleared + 1,
                      !.handlers = (@ \ {h}) \cup {h1}]
  IN speak(m1, Filler, h.tid)

\* processUserInput from the settling of fetch('/api/chat') to the next await.
chatSettled(m, h, ok, progress, frust) ==
  LET pre == m
      \* bookkeeping: the store before and after, and the text handed to speak()
      res(mm) ==
        [mm EXCEPT !.results = Append(@,
           [tid |-> h.tid, ok |-> ok, progress |-> progress, frust |-> frust,
            preRoutine |-> pre.currentRoutine, preStep |-> pre.currentStepIndex,
            postRoutine |-> mm.currentRoutine, postStep |-> mm.currentStepIndex,
            spoke |-> IF Len(mm.spoken) = Len(pre.spoken) + 1
                      THEN mm.spoken[Len(mm.spoken)]
                      ELSE Text("nothing", 0, 0)])]
  IN IF ~ok
     THEN res(catchBlock(m, h))
     ELSE LET m1 == addMessage(m, "assistant", Reply)
              inProgress == h.snap.currentRoutine # NoRoutine /\ progress
              isLastStep == h.snap.currentStepIndex >= StepsLength(h.snap.currentRoutine) - 1
              nextStepIndex == h.snap.currentStepIndex + 1
              h1 == [h EXCEPT !.pc = "speak", !.progress = inProgress, !.frust = frust]
              m2 == [m1 EXCEPT !.handlers = (@ \ {h}) \cup {h1}]
          IN IF inProgress
             THEN IF ~isLastStep
                  THEN res(speak([nextStep(m2) EXCEPT !.avatarState = "celebrating"],
                                 ReplyNext(h.snap.currentRoutine, nextStepIndex), h.tid))
                  ELSE res(speak(endRoutine([m2 EXCEPT !.avatarState = "celebrating"]),
                                 Reply, h.tid))
             ELSE res(speak(m2, Reply, h.tid))

(* ---------------- debounce and recognition objects ---------------- *)
\* Each render in which isSpeaking changed makes a new processQueue, a new
\* debounced handler (with its own timeoutId) and, through the effect of
\* useSpeechRecognition, a new recognition object bound to that handler.
\*   timer: <<>> or <<transcript>> (the pending setTimeout of debounce)
\*   rec:   "idle" | "starting" | "active" | "stopping"
Epoch(snap) == [snap |-> snap, timer |-> <<>>, rec |-> "idle"]

\* Epoch 0 is the current one, 1..Len(old) the earlier ones still alive.
Ep(m, i) == IF i = 0 THEN m.cur ELSE m.old[i]
SetEp(m, i, e) == IF i = 0 THEN [m EXCEPT !.cur = e] ELSE [m EXCEPT !.old[i] = e]
EpochIds == 0..Len(old)

\* Earlier epochs with no pending timer and an idle recognizer can never act.
Collect(m) ==
  [m EXCEPT !.old = SelectSeq(@, LAMBDA e : e.timer # <<>> \/ e.rec # "idle")]

recStart(state) == IF state = "idle" THEN "starting" ELSE state   \* else throws, caught
recStop(state) == IF state \in {"starting", "active"} THEN "stopping" ELSE state

startListening(m, closureIsListening) ==
  LET called == [m EXCEPT !.listenWanted = TRUE]
  IN IF ~closureIsListening
     THEN [called EXCEPT !.shouldBeListening = TRUE, !.cur.rec = recStart(@)]
     ELSE called

stopListening(m) ==
  [m EXCEPT !.shouldBeListening = FALSE, !.cur.rec = recStop(@),
            !.listenWanted = FALSE]

\* The function wrapped by debounce, run by its timer.
debouncedHandleResult(m, snap, transcript) ==
  LET m1 == [m EXCEPT !.displayTranscript = transcript.id,
                      !.transcriptQueue = Append(@, transcript),
                      !.enqueued = Append(@, transcript.id)]
  IN IF ~snap.isSpeaking /\ ~m1.isProcessingRef
     THEN processQueue(m1, snap)
     ELSE m1

(* ---------------- render ---------------- *)
\* The React state whose change re-creates a closure or re-runs an effect.
Seen(m) ==
  [isSpeaking |-> m.isSpeaking, isListening |-> m.isListening, micActive |-> m.micActive]

\* A disposed component is never rendered again.
NeedsRender == isMounted /\ rendered # Seen(Mem)

\* A recognizer that was told to start or to stop and has not said so yet.
RecPending ==
  \/ cur.rec \in {"starting", "stopping"}
  \/ \E i \in 1..Len(old) : old[i].rec \in {"starting", "stopping"}

\* Two time scales: a pending React commit and the recognizer's onstart/onend
\* after start()/stop() come within milliseconds; timers (300 ms, 2 s, 10 s),
\* network responses, playback and user input come after them.
Quiet == ~NeedsRender /\ ~RecPending

\* A commit of Companion: cleanups of the effects whose dependencies changed,
\* new closures, then the effects in declaration order.
render(m) ==
  LET seen == Seen(m)
      spkChanged == m.rendered.isSpeaking # seen.isSpeaking
      lisChanged == m.rendered.isListening # seen.isListening
      \* cleanup of the useSpeechRecognition effect (onResult changed), then
      \* its body: a new recognition object for the new debounced handler
      m1 == IF spkChanged
            THEN [m EXCEPT !.shouldBeListening = FALSE,
                           !.listenWanted = FALSE,
                           !.old = Append(@, [m.cur EXCEPT !.rec = recStop(@)]),
                           !.cur = Epoch(Snap(m))]
            ELSE m
      \* cleanup of the greeting effect: clearTimeout(timer)
      m2 == IF (spkChanged \/ lisChanged) /\ m1.greet = "timer"
            THEN [m1 EXCEPT !.greet = "cancelled"]
            ELSE m1
      \* "process the queue when the avatar stops speaking"
      m3 == IF spkChanged /\ ~seen.isSpeaking /\ Len(m2.transcriptQueue) > 0
               /\ ~m2.isProcessingRef
            THEN processQueue(m2, m2.cur.snap)
            ELSE m2
      \* "pause speech recognition while the avatar is speaking"
      m4 == IF seen.micActive
            THEN IF seen.isSpeaking
                 THEN stopListening(m3)
                 ELSE startListening(m3, seen.isListening)
            ELSE m3
  IN Collect([m4 EXCEPT !.rendered = seen])

(* ---------------- remaining handlers ---------------- *)
ttsSettled(m, f, outcome) ==
  LET loaded == [m EXCEPT !.liveUrls = @ \cup {f.sid},
                          !.audioUrlRef = f.sid, !.audioRef = f.sid,
                          !.isLoading = FALSE, !.isSpeaking = TRUE]
  IN IF outcome = "ok"
     THEN [loaded EXCEPT !.speaks = (@ \ {f}) \cup {[f EXCEPT !.stage = "playing"]}]
     ELSE IF outcome = "playRejected"
     THEN speakWithBrowser(cleanupAudioUrl(loaded), f)
     ELSE speakWithBrowser(cleanupAudioUrl([m EXCEPT !.isLoading = FALSE]), f)

audioEnded(m, f) ==
  Resume(cleanupAudioUrl([m EXCEPT !.isSpeaking = FALSE, !.speaks = @ \ {f}]),
         f.awaiter)

audioError(m, f) ==
  speakWithBrowser(cleanupAudioUrl([m EXCEPT !.isSpeaking = FALSE]), f)

\* utterance.onend, and utterance.onerror with 'canceled': resolve.
\* utterance.onerror with any other error: reject, caught by speak().
utteranceSettled(m, f, outcome) ==
  LET m1 == [m EXCEPT !.isSpeaking = FALSE, !.speaks = @ \ {f}]
  IN IF outcome \in {"end", "canceled"}
     THEN Resume(m1, f.awaiter)
     ELSE Resume([m1 EXCEPT !.ttsError = TRUE, !.isLoading = FALSE], f.awaiter)

\* The retry timer's callback with the phrase appended to the log only.
retryTimeout_LogOnly(m) ==
  IF ~m.isMounted THEN m
  ELSE addMessage(m, "assistant", OfflinePhrase)

retryTimeout(m) ==
  IF ~m.isMounted THEN m
  ELSE speak(addMessage(m, "assistant", OfflinePhrase), OfflinePhrase, NoAwaiter)

\* The gesture types and the avatar state each one shows.
TouchTypes == {"tap", "longpress"}
TouchState(type) ==
  CASE type = "tap" -> "touched" [] type = "poke" -> "poked"
    [] type = "pet" -> "petted" [] type = "longpress" -> "curious"


\* The callback of the 2 s timer.
touchTimeout(m, closure) ==
  IF ~closure.isSpeaking /\ ~closure.isListening
  THEN [m EXCEPT !.avatarState = "idle"]
  ELSE m

\* The 2 s timer keeps the isSpeaking and isListening of the render in which
\* the gesture was handled.  A timer whose callback will do nothing (one of
\* the two is true in its closure) is not kept.
handleAvatarTouch(m, type) ==
  IF m.isSpeaking \/ m.isProcessing THEN m
  ELSE LET closure == [isSpeaking |-> m.rendered.isSpeaking,
                       isListening |-> m.rendered.isListening]
           m1 == speak([m EXCEPT !.avatarState = TouchState(type)], TouchResponse, NoAwaiter)
       IN IF closure.isSpeaking \/ closure.isListening
          THEN m1
          ELSE [m1 EXCEPT !.touchTimers = Append(@, closure)]

toggleMicrophone(m) ==
  IF m.micActive
  THEN stopListening([m EXCEPT !.micActive = FALSE, !.userMicOff = TRUE])
  ELSE LET m1 == [m EXCEPT !.micActive = TRUE, !.userMicOff = FALSE]
       IN IF ~m.isSpeaking
          THEN startListening(m1, m.isListening)
          ELSE m1

dismissHelpAlert(m) ==
  setFrustrationLevel([m EXCEPT !.showHelpAlert = FALSE, !.frustrationCount = 0],
                      "none")

\* Unmount of Companion: the cleanups of its effects.  The 2500 ms greeting
\* timer is cleared by its effect's cleanup, the inner 100 ms timer and the
\* debounce timers are not; the recognition object is stopped.
unmount(m) ==
  LET m1 == [m EXCEPT !.isMounted = FALSE,
                      !.retryTimers = 0,
                      !.greet = IF @ = "timer" THEN "cancelled" ELSE @]
  IN stop(stopListening(m1))

onstart(m, i) ==
  [SetEp(m, i, [Ep(m, i) EXCEPT !.rec = "active"]) EXCEPT !.isListening = TRUE]

\* onend restarting the recognizer whatever the desired state is.
onend_AlwaysRestart(m, i) ==
  [SetEp(m, i, [Ep(m, i) EXCEPT !.rec = "starting"]) EXCEPT !.isListening = FALSE]

onend(m, i) ==
  [SetEp(m, i, [Ep(m, i) EXCEPT !.rec = IF m.shouldBeListening THEN "starting" ELSE "idle"])
     EXCEPT !.isListening = FALSE]

\* The error causes of the model: silence, an intentional stop, and two
\* causes that are problems.
RecognitionCauses == {"no-speech", "aborted", "network", "audio-capture"}

\* onerror recording every cause.
onerror_NoFilter(m, cause) == [m EXCEPT !.recError = cause]

onerror(m, cause) ==
  IF cause = "no-speech" \/ cause = "aborted"
  THEN m
  ELSE [m EXCEPT !.recError = cause]

onresult(m, i, u) ==
  [SetEp(m, i, [Ep(m, i) EXCEPT !.timer = <<[id |-> m.nextTid, utt |-> u]>>])
     EXCEPT !.nextTid = @ + 1, !.events = @ + 1]

(* ---------------- actions ---------------- *)
Render ==
  /\ NeedsRender
  /\ Commit(render(Mem))

RecognitionResult ==
  /\ Quiet
  /\ events < MaxEvents
  /\ \E i \in EpochIds : \E u \in UtteranceIds :
       /\ Ep(Mem, i).rec = "active"
       /\ Commit(onresult(Mem, i, u))

DebounceTimer ==
  /\ Quiet
  /\ \E i \in EpochIds :
       /\ Ep(Mem, i).timer # <<>>
       /\ LET e == Ep(Mem, i)
          IN Commit(Collect(debouncedHandleResult(
                      SetEp(Mem, i, [e EXCEPT !.timer = <<>>]), e.snap, e.timer[1])))

ChatSettles ==
  /\ Quiet
  /\ \E h \in handlers :
       /\ h.pc = "fetch"
       /\ \E ok \in BOOLEAN, progress \in BOOLEAN, frust \in BOOLEAN :
            /\ ~ok => (~progress /\ ~frust)
            /\ Commit(chatSettled(Mem, h, ok, progress, frust))

\* /api/tts answers with audio and playback starts.
TtsSettles ==
  /\ Quiet
  /\ \E f \in speaks : f.stage = "fetch" /\ Commit(ttsSettled(Mem, f, "ok"))

\* /api/tts fails, or audio.play() rejects.
TtsFails ==
  /\ Quiet
  /\ events < MaxEvents
  /\ \E f \in speaks :
       /\ f.stage = "fetch"
       /\ \E outcome \in {"playRejected", "failed"} :
            Commit(ttsSettled([Mem EXCEPT !.events = @ + 1], f, outcome))

AudioEnded ==
  /\ Quiet
  /\ \E f \in speaks : f.stage = "playing" /\ Commit(audioEnded(Mem, f))

AudioError ==
  /\ Quiet
  /\ events < MaxEvents
  /\ \E f \in speaks :
       f.stage = "playing" /\ Commit(audioError([Mem EXCEPT !.events = @ + 1], f))

\* A local utterance ends, or a cancelled one gets its error event (browsers
\* report 'canceled' or 'interrupted').
UtteranceSettles ==
  /\ Quiet
  /\ \E f \in speaks :
       \/ /\ f.stage = "browser"
          /\ Commit(utteranceSettled(Mem, f, "end"))
       \/ /\ f.stage = "cancelled"
          /\ \E outcome \in {"canceled", "interrupted"} :
               Commit(utteranceSettled(Mem, f, outcome))

\* Local synthesis fails while speaking.
UtteranceFails ==
  /\ Quiet
  /\ events < MaxEvents
  /\ \E f \in speaks :
       /\ f.stage = "browser"
       /\ Commit(utteranceSettled([Mem EXCEPT !.events = @ + 1], f, "failed"))

RetryTimer ==
  /\ Quiet
  /\ retryTimers > 0
  /\ Commit(retryTimeout([Mem EXCEPT !.retryTimers = @ - 1]))

RecognitionStarts ==
  /\ ~NeedsRender
  /\ \E i \in EpochIds : Ep(Mem, i).rec = "starting" /\ Commit(onstart(Mem, i))

\* onend after stop().
RecognitionEnds ==
  /\ ~NeedsRender
  /\ \E i \in EpochIds :
       /\ Ep(Mem, i).rec = "stopping"
       /\ Commit(Collect(onend(Mem, i)))

\* onend without stop(): the recognizer gives up (silence, network).
RecognitionDrops ==
  /\ Quiet
  /\ events < MaxEvents
  /\ \E i \in EpochIds :
       /\ Ep(Mem, i).rec = "active"
       /\ Commit(Collect(onend([Mem EXCEPT !.events = @ + 1], i)))

\* An error event of a running recognizer.
RecognitionError ==
  /\ Quiet
  /\ events < MaxEvents
  /\ \E i \in EpochIds : Ep(Mem, i).rec = "active"
  /\ \E cause \in RecognitionCauses :
       Commit(onerror([Mem EXCEPT !.events = @ + 1], cause))

ToggleMicrophone ==
  /\ Quiet
  /\ isMounted
  /\ events < MaxEvents
  /\ Commit(toggleMicrophone([Mem EXCEPT !.events = @ + 1]))

AvatarTouch ==
  /\ Quiet
  /\ isMounted
  /\ events < MaxEvents
  /\ \E type \in TouchTypes :
       Commit(handleAvatarTouch([Mem EXCEPT !.events = @ + 1], type))

\* The 2 s timers fire in the order in which they were set.
TouchTimer ==
  /\ Quiet
  /\ touchTimers # <<>>
  /\ Commit(touchTimeout([Mem EXCEPT !.touchTimers = Tail(@)], Head(touchTimers)))

DismissHelpAlert ==
  /\ Quiet
  /\ isMounted
  /\ showHelpAlert
  /\ events < MaxEvents
  /\ Commit(dismissHelpAlert([Mem EXCEPT !.events = @ + 1]))

\* The caregiver leaves the companion screen.
Unmount ==
  /\ Quiet
  /\ isMounted
  /\ events < MaxEvents
  /\ Commit(Collect(unmount([Mem EXCEPT !.events = @ + 1])))

\* The 2500 ms timer of the greeting effect.
GreetingTimer ==
  /\ Quiet
  /\ greet = "timer"
  /\ Commit(addMessage(speak([Mem EXCEPT !.greet = "inner", !.avatarState = "excited"],
                             FullGreeting, NoAwaiter),
                       "assistant", FullGreeting))

\* Its inner 100 ms timer; isSpeaking and startListening are those of the
\* render in which the effect ran (isSpeaking = false, isListening = false).
GreetingMic ==
  /\ Quiet
  /\ greet = "inner"
  /\ Commit(startListening([Mem EXCEPT !.greet = "done", !.micActive = TRUE], FALSE))

\* The state after the first commit of Companion (mount).
InitMount ==
  /\ currentRoutine = NoRoutine
  /\ currentStepIndex = 0
  /\ frustrationLevel = "none"
  /\ messages = <<>>
  /\ isProcessing = FALSE
  /\ showHelpAlert = FALSE
  /\ micActive = FALSE
  /\ displayTranscript = 0
  /\ transcriptQueue = <<>>
  /\ isProcessingRef = FALSE
  /\ frustrationCount = 0
  /\ retryTimers = 0
  /\ isMounted = TRUE
  /\ isSpeaking = FALSE
  /\ isLoading = FALSE
  /\ ttsError = FALSE
  /\ audioRef = 0
  /\ audioUrlRef = 0
  /\ abortRef = 0
  /\ speaks = {}
  /\ isListening = FALSE
  /\ shouldBeListening = FALSE
  /\ cur = Epoch([isSpeaking |-> FALSE, isProcessing |-> FALSE,
                  currentRoutine |-> NoRoutine, currentStepIndex |-> 0])
  /\ old = <<>>
  /\ handlers = {}
  /\ rendered = [isSpeaking |-> FALSE, isListening |-> FALSE, micActive |-> FALSE]
  /\ greet = "timer"
  /\ touchTimers = <<>>
  /\ avatarState = getAvatarState(
       [showHelpAlert |-> showHelpAlert, isSpeaking |-> rendered.isSpeaking,
        isListening |-> rendered.isListening, isProcessing |-> isProcessing,
        timeOfDay |-> TimeOfDay, frustrationLevel |-> frustrationLevel])
  /\ likes = MaxLikes
  /\ spoken = <<>>
  /\ nextTid = 1
  /\ nextSid = 1
  /\ events = 0
  /\ enqueued = <<>>
  /\ turns = <<>>
  /\ results = <<>>
  /\ outcomes = <<>>
  /\ liveUrls = {}
  /\ recError = "none"
  /\ userMicOff = FALSE
  /\ listenWanted = shouldBeListening

\* A later state of the same run, entered with one input of the budget
\* left: the greeting has been spoken, the microphone is on, the first transcript
\* ("I did it", no routine active) is waiting for /api/chat and the second
\* ("I want to brush my teeth") is in the queue behind it.  InitMount reaches
\* it by GreetingTimer, TtsSettles, Render, AudioEnded, Render, GreetingMic,
\* Render, RecognitionStarts, Render, RecognitionResult, DebounceTimer,
\* RecognitionResult, DebounceTimer.
InitQueued ==
  LET snap0  == [isSpeaking |-> FALSE, isProcessing |-> FALSE,
                 currentRoutine |-> NoRoutine, currentStepIndex |-> 0]
      first  == [id |-> 1, utt |-> 2]
      second == [id |-> 2, utt |-> 1]
  IN
  /\ currentRoutine = NoRoutine
  /\ currentStepIndex = 0
  /\ frustrationLevel = "none"
  /\ messages = << [role |-> "assistant", content |-> FullGreeting],
                   [role |-> "user", content |-> 2] >>
  /\ isProcessing = TRUE
  /\ showHelpAlert = FALSE
  /\ micActive = TRUE
  /\ displayTranscript = 2
  /\ transcriptQueue = <<second>>
  /\ isProcessingRef = TRUE
  /\ frustrationCount = 0
  /\ retryTimers = 0
  /\ isMounted = TRUE
  /\ isSpeaking = FALSE
  /\ isLoading = FALSE
  /\ ttsError = FALSE
  /\ audioRef = 1
  /\ audioUrlRef = 0
  /\ abortRef = 1
  /\ speaks = {}
  /\ isListening = TRUE
  /\ shouldBeListening = TRUE
  /\ cur = [Epoch(snap0) EXCEPT !.rec = "active"]
  /\ old = <<>>
  /\ handlers = {Handler(first, snap0, "fetch", "chat", FALSE, FALSE)}
  /\ rendered = [isSpeaking |-> FALSE, isListening |-> TRUE, micActive |-> TRUE]
  /\ greet = "done"
  /\ touchTimers = <<>>
  /\ avatarState = getAvatarState(
       [showHelpAlert |-> showHelpAlert, isSpeaking |-> rendered.isSpeaking,
        isListening |-> rendered.isListening, isProcessing |-> isProcessing,
        timeOfDay |-> TimeOfDay, frustrationLevel |-> frustrationLevel])
  /\ likes = MaxLikes
  /\ spoken = <<FullGreeting>>
  /\ nextTid = 3
  /\ nextSid = 2
  /\ events = MaxEvents - 1
  /\ enqueued = <<1, 2>>
  /\ turns = << [tid |-> 1, utt |-> 2, speaking |-> FALSE,
                 liveRoutine |-> NoRoutine, liveStep |-> 0,
                 reqRoutine |-> NoRoutine, reqStep |-> 0,
                 behind |-> 0, branch |-> "chat"] >>
  /\ results = <<>>
  /\ outcomes = <<>>
  /\ liveUrls = {}
  /\ recError = "none"
  /\ userMicOff = FALSE
  /\ listenWanted = shouldBeListening

\* A state late in a session, entered with one input of the budget left and
\* with the bookkeeping of the run started afresh.  "I want to brush my
\* teeth" started the teeth routine, five "I did it" turns with a progress
\* signal moved it to its last step but one, two more turns carried a
\* frustration signal only (counter 2, level mild); a ninth transcript
\* ("I did it") is waiting for /api/chat and a tenth is queued behind it.
\* The profile has one like or none.
InitRoutine ==
  LET routine == TriggerOf[1]
      step    == StepsLength(routine) - 2
      done    == 1 + step + 2            \* turns and replies before this one
      snapR   == [isSpeaking |-> FALSE, isProcessing |-> FALSE,
                  currentRoutine |-> routine, currentStepIndex |-> step]
      first   == [id |-> done + 1, utt |-> 2]
      second  == [id |-> done + 2, utt |-> 2]
      said(k) == IF k % 2 = 1 THEN [role |-> "user", content |-> 2]
                 ELSE [role |-> "assistant", content |-> Reply]
  IN
  /\ currentRoutine = routine
  /\ currentStepIndex = step
  /\ frustrationLevel = "mild"
  /\ messages = << [role |-> "assistant", content |-> FullGreeting],
                   [role |-> "user", content |-> 1],
                   [role |-> "assistant", content |-> Greeting(routine)] >>
                 \o [k \in 1..(2 * (step + 2) + 1) |-> said(k)]
  /\ isProcessing = TRUE
  /\ showHelpAlert = FALSE
  /\ micActive = TRUE
  /\ displayTranscript = second.id
  /\ transcriptQueue = <<second>>
  /\ isProcessingRef = TRUE
  /\ frustrationCount = 2
  /\ retryTimers = 0
  /\ isMounted = TRUE
  /\ isSpeaking = FALSE
  /\ isLoading = FALSE
  /\ ttsError = FALSE
  /\ audioRef = done + 1
  /\ audioUrlRef = 0
  /\ abortRef = done + 1
  /\ speaks = {}
  /\ isListening = TRUE
  /\ shouldBeListening = TRUE
  /\ cur = [Epoch(snapR) EXCEPT !.rec = "active"]
  /\ old = <<>>
  /\ handlers = {Handler(first, snapR, "fetch", "chat", FALSE, FALSE)}
  /\ rendered = [isSpeaking |-> FALSE, isListening |-> TRUE, micActive |-> TRUE]
  /\ greet = "done"
  /\ touchTimers = <<>>
  /\ avatarState = getAvatarState(
       [showHelpAlert |-> showHelpAlert, isSpeaking |-> rendered.isSpeaking,
        isListening |-> rendered.isListening, isProcessing |-> isProcessing,
        timeOfDay |-> TimeOfDay, frustrationLevel |-> frustrationLevel])
  /\ likes \in {0, MaxLikes}
  /\ spoken = <<>>
  /\ nextTid = done + 3
  /\ nextSid = done + 2
  /\ events = MaxEvents - 1
  /\ enqueued = <<first.id, second.id>>
  /\ turns = << [tid |-> first.id, utt |-> 2, speaking |-> FALSE,
                 liveRoutine |-> routine, liveStep |-> step,
                 reqRoutine |-> routine, reqStep |-> step,
                 behind |-> 0, branch |-> "chat"] >>
  /\ results = <<>>
  /\ outcomes = <<>>
  /\ liveUrls = {}
  /\ recError = "none"
  /\ userMicOff = FALSE
  /\ listenWanted = shouldBeListening

\* No pure function is under test while the controller runs.
NoInputs ==
  [showHelpAlert |-> FALSE, isSpeaking |-> FALSE, isListening |-> FALSE,
   isProcessing |-> FALSE, timeOfDay |-> "morning", frustrationLevel |-> "none"]
NoProbe == [kind |-> "none", text |-> <<>>, inputs |-> NoInputs, out |-> <<>>]

(* ---------------- API routes (app/api/chat/route.ts, app/api/tts/route.ts) ---------------- *)
Routes == {"chat", "tts"}
RATE_LIMIT == [chat |-> 30, tts |-> 20]    \* requests per minute
RATE_WINDOW == 60000                       \* 1 minute, in ms

\* The values of the x-forwarded-for header in the model; a request without
\* the header is counted under 'anonymous'.
Ips == {"203.0.113.7", "anonymous"}

\* The clock moves at most MaxAdvances times in a run, by one of ClockSteps.
MaxAdvances == 2
ClockSteps == {1, RATE_WINDOW}

\* rateLimitMap.get(ip) is <<>> (undefined) or <<record>>.
NoRecord == <<>>
NoResponse == [ip |-> "", status |-> 0, upstream |-> FALSE,
               fresh |-> FALSE, seen |-> 0]

\* A request body fails the zod schema, or passes it and the upstream
\* service (OpenAI, ElevenLabs) answers, or passes it and the upstream
\* service fails.
Requests == {"invalid", "answered", "upstreamDown"}

\* The route module as loaded: empty map, clock at 0.  windows is the log of
\* the run: for each client the time its current window was opened and the
\* requests let through since.
ServerAt(route, apiKey) ==
  [route |-> route, apiKey |-> apiKey, now |-> 0, advances |-> 0,
   rateLimitMap |-> [ip \in Ips |-> NoRecord],
   windows |-> [ip \in Ips |-> NoRecord],
   response |-> NoResponse]

\* No route module is under test while the controller runs.
NoServer == ServerAt("none", FALSE)

\* checkRateLimit with `>` in place of `>=` in the test of the count.
checkRateLimit_OffByOne(route, map, ip, now) ==
  LET record == map[ip]
  IN IF record = NoRecord \/ now > record[1].resetTime
     THEN [ok |-> TRUE,
           map |-> [map EXCEPT ![ip] = <<[count |-> 1, resetTime |-> now + RATE_WINDOW]>>]]
     ELSE IF record[1].count > RATE_LIMIT[route]
     THEN [ok |-> FALSE, map |-> map]
     ELSE [ok |-> TRUE, map |-> [map EXCEPT ![ip][1].count = @ + 1]]

\* checkRateLimit(ip) of the route module: its result and the map it leaves.
checkRateLimit(route, map, ip, now) ==
  LET record == map[ip]
  IN IF record = NoRecord \/ now > record[1].resetTime
     THEN [ok |-> TRUE,
           map |-> [map EXCEPT ![ip] = <<[count |-> 1, resetTime |-> now + RATE_WINDOW]>>]]
     ELSE IF record[1].count >= RATE_LIMIT[route]
     THEN [ok |-> FALSE, map |-> map]
     ELSE [ok |-> TRUE, map |-> [map EXCEPT ![ip][1].count = @ + 1]]

\* POST of the route module for one request with header value ip.  The
\* response records the status and whether the upstream service was called;
\* fresh and seen are read from the log before the request: no window of this
\* client is open (none yet, or the last one is past its reset time), and the
\* number of requests let through in the open window.
POST(srv, ip, request) ==
  LET open  == /\ srv.windows[ip] # NoRecord
               /\ srv.now <= srv.windows[ip][1].opened + RATE_WINDOW
      seen  == IF open THEN srv.windows[ip][1].admitted ELSE 0
      reply(status, upstream) ==
        [ip |-> ip, status |-> status, upstream |-> upstream,
         fresh |-> ~open, seen |-> seen]
      limit == checkRateLimit(srv.route, srv.rateLimitMap, ip, srv.now)
      let   == [srv EXCEPT
                  !.rateLimitMap = limit.map,
                  !.windows[ip] = <<[opened |-> IF open THEN srv.windows[ip][1].opened
                                                ELSE srv.now,
                                     admitted |-> seen + 1]>>]
  IN IF ~srv.apiKey
     THEN [srv EXCEPT !.response = reply(503, FALSE)]
     ELSE IF ~limit.ok
     THEN [srv EXCEPT !.rateLimitMap = limit.map, !.response = reply(429, FALSE)]
     ELSE IF request = "invalid"
     THEN [let EXCEPT !.response = reply(400, FALSE)]
     ELSE IF request = "answered"
     THEN [let EXCEPT !.response = reply(200, TRUE)]
     ELSE [let EXCEPT !.response = reply(500, TRUE)]

\* A request arrives at the route.
Post ==
  /\ \E ip \in Ips, request \in Requests :
       server' = POST(server, ip, request)
  /\ UNCHANGED <<controller, probe>>

\* Time passes (Date.now() grows); the latest response has been sent.
Advance ==
  /\ server.advances < MaxAdvances
  /\ \E d \in ClockSteps :
       server' = [server EXCEPT !.now = @ + d, !.advances = @ + 1,
                                !.response = NoResponse]
  /\ UNCHANGED <<controller, probe>>

RateInit ==
  /\ InitMount
  /\ probe = NoProbe
  /\ server \in {ServerAt(route, apiKey) : route \in Routes, apiKey \in BOOLEAN}

RateNext == Post \/ Advance

RateSpec == RateInit /\ [][RateNext]_vars

Init == (InitMount \/ InitQueued \/ InitRoutine) /\ probe = NoProbe /\ server = NoServer

Next ==
  \/ Render
  \/ RecognitionResult
  \/ DebounceTimer
  \/ ChatSettles
  \/ TtsSettles
  \/ TtsFails
  \/ AudioEnded
  \/ AudioError
  \/ UtteranceSettles
  \/ UtteranceFails
  \/ RetryTimer
  \/ RecognitionStarts
  \/ RecognitionEnds
  \/ RecognitionDrops
  \/ RecognitionError
  \/ ToggleMicrophone
  \/ AvatarTouch
  \/ TouchTimer
  \/ DismissHelpAlert
  \/ Unmount
  \/ GreetingTimer
  \/ GreetingMic

Spec == Init /\ [][Next]_vars

\* Every remote call eventually returns or fails, every playback eventually
\* ends, every armed timer fires, every commit and recognizer notification
\* is delivered.  Nothing is assumed of the user or of failures.
Fairness ==
  /\ WF_vars(Render)
  /\ WF_vars(DebounceTimer)
  /\ WF_vars(ChatSettles)
  /\ WF_vars(TtsSettles)
  /\ WF_vars(AudioEnded)
  /\ WF_vars(UtteranceSettles)
  /\ WF_vars(RetryTimer)
  /\ WF_vars(TouchTimer)
  /\ WF_vars(RecognitionStarts)
  /\ WF_vars(RecognitionEnds)
  /\ WF_vars(GreetingTimer)
  /\ WF_vars(GreetingMic)

FairSpec == Spec /\ Fairness

(* ---------------- pure functions applied to drawn inputs ---------------- *)
FindRoutineByTrigger ==
  /\ probe.kind = "trigger" /\ probe.out = <<>>
  /\ probe' = [probe EXCEPT !.out = <<findRoutineByTrigger(probe.text)>>]
  /\ UNCHANGED <<controller, server>>

GetAvatarState ==
  /\ probe.kind = "avatar" /\ probe.out = <<>>
  /\ probe' = [probe EXCEPT !.out = <<getAvatarState(probe.inputs)>>]
  /\ UNCHANGED <<controller, server>>

PureInit ==
  /\ InitMount
  /\ server = NoServer
  /\ probe \in {[NoProbe EXCEPT !.kind = "trigger", !.text = t] : t \in Texts}
             \cup {[NoProbe EXCEPT !.kind = "avatar", !.inputs = c] : c \in AvatarInputs}

PureNext == FindRoutineByTrigger \/ GetAvatarState

PureSpec == PureInit /\ [][PureNext]_vars

(* ======================= properties ======================= *)

\* C1: in every reachable state at most one invocation of processUserInput
\* is in flight.
SingleFlight == Cardinality(handlers) <= 1

\* A second transcript is being handled while a third waits in the queue.
SingleFlightWitness ==
  handlers # {} /\ transcriptQueue # <<>> /\ Len(turns) >= 2

\* C2: in no committed render are the speech input's isListening and the
\* speech output's isSpeaking both true.
MicSpeakerExclusion == ~(rendered.isListening /\ rendered.isSpeaking)

\* C3: transcripts start their handling in the order in which they were
\* enqueued.
FifoOrder ==
  /\ Len(turns) <= Len(enqueued)
  /\ \A i \in 1..Len(turns) : turns[i].tid = enqueued[i]

\* A transcript started its handling while a later one was waiting behind it.
FifoOrderWitness ==
  \E i \in 1..Len(turns) : turns[i].behind >= 1 /\ turns[i].tid = enqueued[i]

\* C4: no handling of a dequeued transcript starts while the output sink is
\* speaking.
NoStartWhileSpeaking == \A i \in 1..Len(turns) : ~turns[i].speaking

\* C5: whenever no invocation of processUserInput is in flight (each one that
\* was started has left by one of its exit paths), isProcessingRef is false.
GuardReleased == (handlers = {}) => ~isProcessingRef

\* A turn whose remote call failed has ended and left the guard clear.
GuardReleasedWitness ==
  /\ handlers = {}
  /\ ~isProcessingRef
  /\ \E i \in 1..Len(results) : ~results[i].ok

\* C6: every enqueued transcript is eventually dequeued, and the busy guard
\* eventually returns to false, for as long as the controller is mounted.
QueueLiveness ==
  (isProcessingRef \/ transcriptQueue # <<>>)
    ~> (~isMounted \/ (~isProcessingRef /\ transcriptQueue = <<>>))

\* C7: of a burst of transcripts only the last stays pending for the queue:
\* an arrival while an earlier arrival's debounce timer is still pending
\* replaces it, so at most one debounce timer is pending at any time.
DebounceCoalesces ==
  Cardinality({i \in EpochIds : Ep(Mem, i).timer # <<>>}) <= 1

\* C8: a dequeued transcript that matches a trigger phrase while no routine
\* session is active is answered by the routine branch (session created at
\* step 0, greeting appended and spoken, no request to /api/chat).
TriggerStartsRoutine ==
  \A i \in 1..Len(turns) :
    (TriggerOf[turns[i].utt] # NoRoutine /\ turns[i].liveRoutine = NoRoutine)
      => turns[i].branch = "routine"

\* C9: startRoutine is invoked only while no session is active.
StartOnlyWhenNoSession ==
  \A i \in 1..Len(turns) :
    turns[i].branch = "routine" => turns[i].liveRoutine = NoRoutine

\* C10: a progress signal received while a session is active at step i < last
\* moves the cursor to i+1 and the reply is spoken with the instruction of
\* step i+1.
StepAdvance ==
  \A i \in 1..Len(results) :
    LET r == results[i]
    IN (r.ok /\ r.progress /\ r.preRoutine # NoRoutine
          /\ r.preStep < StepsLength(r.preRoutine) - 1)
         => /\ r.postRoutine = r.preRoutine
            /\ r.postStep = r.preStep + 1
            /\ r.spoke = ReplyNext(r.preRoutine, r.preStep + 1)

\* C11: a progress signal received while a session is active at its last
\* step ends the session (session null, cursor 0) and the reply is spoken
\* alone, with no step instruction appended.
RoutineCompletion ==
  \A i \in 1..Len(results) :
    LET r == results[i]
    IN (r.ok /\ r.progress /\ r.preRoutine # NoRoutine
          /\ r.preStep >= StepsLength(r.preRoutine) - 1)
         => /\ r.postRoutine = NoRoutine
            /\ r.postStep = 0
            /\ r.spoke = Reply

\* C12: a successful response with indicatesProgress = true leaves the
\* frustration counter reset: after the turn it is 0, or 1 when the same
\* response also signalled frustration, whether or not a session is active.
ProgressResetsCounter ==
  \A i \in 1..Len(results) : \A j \in 1..Len(outcomes) :
    (results[i].tid = outcomes[j].tid /\ results[i].ok /\ results[i].progress)
      => outcomes[j].postCount = (IF outcomes[j].frust THEN 1 ELSE 0)

\* C13: in every reachable state the stored frustration level is the one
\* the thresholds give for the counter: none for 0, mild for 1 and 2,
\* moderate for 3, high from 4 on.
LevelFollowsCounter ==
  frustrationLevel =
    (IF frustrationCount >= 4 THEN "high"
     ELSE IF frustrationCount >= 3 THEN "moderate"
     ELSE IF frustrationCount >= 1 THEN "mild"
     ELSE "none")

\* C14: every increment of the counter by a frustration signal leaves the
\* level of the ladder (mild at 1 and 2, moderate at 3, high from 4) and
\* fires the action of that tier only: nothing is said at 1 and 2; at 3
\* one distraction utterance (none with an empty likes list) and no help
\* alert; at 4 the help alert is set and the request for help is issued.
FrustrationLadder ==
  \A j \in 1..Len(outcomes) :
    LET o == outcomes[j]
        c == o.postCount
    IN o.frust =>
         /\ c >= 1
         /\ c \in {1, 2} => (o.level = "mild" /\ o.said = <<>> /\ o.help = o.preHelp)
         /\ c = 3 => /\ o.level = "moderate"
                     /\ o.said = (IF o.likes > 0 THEN <<Distraction>> ELSE <<>>)
                     /\ o.help = o.preHelp
         /\ c >= 4 => (o.level = "high" /\ o.said = <<HelpRequest>> /\ o.help)

\* Two turns in a row carried a frustration signal: the first reached 3 and
\* issued the distraction, the second reached 4 and raised the help alert.
FrustrationLadderWitness ==
  \E j \in 1..Len(outcomes) :
    /\ j > 1
    /\ outcomes[j - 1].frust /\ outcomes[j - 1].postCount = 3
    /\ outcomes[j - 1].said = <<Distraction>> /\ ~outcomes[j - 1].help
    /\ outcomes[j].frust /\ outcomes[j].postCount = 4 /\ outcomes[j].help

HelpAlertSticky ==
  [][ /\ (showHelpAlert /\ ~showHelpAlert') => DismissHelpAlert
      /\ DismissHelpAlert =>
           (~showHelpAlert' /\ frustrationCount' = 0 /\ frustrationLevel' = "none")
    ]_vars

\* An escalation raised the alert and the caregiver has dismissed it.
HelpAlertStickyWitness ==
  /\ ~showHelpAlert
  /\ frustrationCount = 0
  /\ \E j \in 1..Len(outcomes) : outcomes[j].help /\ ~outcomes[j].preHelp

\* C17: a turn whose call to /api/chat fails speaks the filler in that turn;
\* every offline phrase in the log was spoken once, there are no more of
\* them (delivered or still armed) than failed turns, and after a single
\* failure with the controller still mounted there is exactly one, armed
\* or delivered.
OfflineFallback ==
  LET failed    == Cardinality({i \in 1..Len(results) : ~results[i].ok})
      appended  == Cardinality({i \in 1..Len(messages) :
                                  /\ messages[i].role = "assistant"
                                  /\ messages[i].content = OfflinePhrase})
      delivered == Cardinality({i \in 1..Len(spoken) : spoken[i] = OfflinePhrase})
  IN /\ \A i \in 1..Len(results) : ~results[i].ok => results[i].spoke = Filler
     /\ appended = delivered
     /\ appended + retryTimers <= failed
     /\ (isMounted /\ failed = 1) => appended + retryTimers = 1

\* The only turn so far failed, nothing was said after it, and the delayed
\* fallback has fired: one offline phrase is in the log and was spoken.
OfflineFallbackWitness ==
  /\ isMounted
  /\ Len(turns) = 1 /\ enqueued = <<turns[1].tid>>
  /\ Len(results) = 1 /\ ~results[1].ok
  /\ retryTimers = 0
  /\ spoken[Len(spoken)] = OfflinePhrase
  /\ messages[Len(messages)] = [role |-> "assistant", content |-> OfflinePhrase]

\* C18: once a later attempt has succeeded, no offline phrase is appended to
\* the log: the fallback armed by the earlier failure has been cancelled.
FallbackCancelled ==
  [][ (Len(results) > 0 /\ results[Len(results)].ok)
        => ~ \E i \in (Len(messages) + 1)..Len(messages') :
               messages'[i] = [role |-> "assistant", content |-> OfflinePhrase] ]_vars

\* C19: once the controller is unmounted no step appends a message, hands a
\* text to speak(), or changes the routine session or the frustration state.
QuietAfterUnmount ==
  [][ ~isMounted
        => UNCHANGED <<messages, spoken, currentRoutine, currentStepIndex,
                       frustrationCount, frustrationLevel, showHelpAlert>> ]_vars

\* C20: at no instant are two utterances being played, as remote audio or by
\* local synthesis; a text superseded by a later speak() is not played.
NoOverlappingPlayback ==
  Cardinality({f \in speaks : f.stage \in {"playing", "browser"}}) <= 1

\* C23: each example phrase of the README starts the routine it is listed
\* under.
ReadmePhrasesStart ==
  \A k \in 1..Len(ReadmeTriggers) :
    (probe.kind = "trigger" /\ probe.text = ReadmeTriggers[k].text /\ probe.out # <<>>)
      => /\ probe.out[1] # NoRoutine
         /\ ROUTINES[probe.out[1]].id = ReadmeTriggers[k].id

\* C26: the result is the first routine in catalog order one of whose trigger
\* phrases occurs in the text, letter case ignored, and null if there is
\* none; a text with "bedtime" in it never selects the bedtime routine.
TriggerMatching ==
  LET t == toLowerCase(probe.text)
      occurs(p) == \E a \in 0..Len(t), b \in 0..Len(t) :
                     a <= b /\ SubSeq(t, a + 1, b) = toLowerCase(p)
      has(r) == \E k \in 1..Len(ROUTINES[r].triggerPhrases) :
                   occurs(ROUTINES[r].triggerPhrases[k])
      found == probe.out[1]
  IN (probe.kind = "trigger" /\ probe.out # <<>>)
       => /\ (found = NoRoutine) <=> (\A r \in 1..Len(ROUTINES) : ~has(r))
          /\ found # NoRoutine
               => (found \in 1..Len(ROUTINES) /\ has(found)
                   /\ \A q \in 1..(found - 1) : ~has(q))
          /\ occurs(<<"b","e","d","t","i","m","e">>)
               => ROUTINES[found].id # "bedtime"

\* A text holding a phrase of two routines was matched, to the earlier one.
TriggerMatchingWitness ==
  /\ probe.kind = "trigger" /\ probe.out # <<>>
  /\ probe.text = <<"I","t"," ","i","s"," ","b","e","d","t","i","m","e"," ","n","o","w">>
  /\ ROUTINES[probe.out[1]].id = "teeth"

\* C21: for every combination of inputs the derived avatar state is one of
\* the eight listed, the one of the first applicable condition in the order
\* help alert, speaking, listening, processing, night, level high, level
\* moderate, otherwise idle.
AvatarPrecedence ==
  LET c == probe.inputs
      order == << <<c.showHelpAlert, "waving">>,
                  <<c.isSpeaking, "talking">>,
                  <<c.isListening, "listening">>,
                  <<c.isProcessing, "thinking">>,
                  <<c.timeOfDay = "night", "sleepy">>,
                  <<c.frustrationLevel = "high", "concerned">>,
                  <<c.frustrationLevel = "moderate", "encouraging">>,
                  <<TRUE, "idle">> >>
      first == CHOOSE k \in 1..Len(order) :
                 order[k][1] /\ \A j \in 1..(k - 1) : ~order[j][1]
  IN (probe.kind = "avatar" /\ probe.out # <<>>)
       => /\ probe.out[1] \in {"waving", "talking", "listening", "thinking",
                               "sleepy", "concerned", "encouraging", "idle"}
          /\ probe.out[1] = order[first][2]

\* Every condition applies at once and the help alert wins.
AvatarPrecedenceWitness ==
  /\ probe.kind = "avatar" /\ probe.out = <<"waving">>
  /\ probe.inputs.showHelpAlert /\ probe.inputs.isSpeaking
  /\ probe.inputs.isListening /\ probe.inputs.isProcessing
  /\ probe.inputs.timeOfDay = "night" /\ probe.inputs.frustrationLevel = "high"

\* C24: the step in which the recognizer delivers a transcript shows that
\* transcript in the caption.
LiveCaption ==
  [][ RecognitionResult => displayTranscript' = nextTid ]_vars

\* C27: in every state in which a drain is in flight or the queue is empty, a
\* call to processQueue changes nothing; and in every step the queue loses
\* only heads, one for each call that went ahead: the transcripts that began
\* their handling in the step are the first elements of the queue (followed
\* by what the step enqueued), in order, and the rest is the new queue.
DrainIdempotent ==
  [][ /\ (isProcessingRef \/ transcriptQueue = <<>>)
          => processQueue(Mem, cur.snap) = Mem
      /\ LET arrived == SubSeq(enqueued', Len(enqueued) + 1, Len(enqueued'))
             began   == SubSeq(turns', Len(turns) + 1, Len(turns'))
             before  == [i \in 1..Len(transcriptQueue) |-> transcriptQueue[i].id] \o arrived
             after   == [i \in 1..Len(transcriptQueue') |-> transcriptQueue'[i].id]
         IN /\ Len(began) <= Len(before)
            /\ \A i \in 1..Len(began) : began[i].tid = before[i]
            /\ after = SubSeq(before, Len(began) + 1, Len(before)) ]_vars

\* A call went ahead with a transcript waiting behind the head, and the drain
\* it started is in flight with a transcript still queued.
DrainIdempotentWitness ==
  /\ isProcessingRef /\ transcriptQueue # <<>>
  /\ Len(turns) >= 1 /\ turns[Len(turns)].behind >= 1

\* C28: at most one delayed-fallback timer is pending; a failure leaves
\* exactly one pending, whether or not one was pending before, and appends no
\* offline phrase; an offline phrase is appended only by the one pending
\* timer firing, one phrase for one timer.
SingleRetryTimer ==
  [][ LET offline(msgs) == Cardinality({i \in 1..Len(msgs) :
                             msgs[i] = [role |-> "assistant", content |-> OfflinePhrase]})
          fails(res) == Cardinality({i \in 1..Len(res) : ~res[i].ok})
      IN /\ retryTimers <= 1
         /\ fails(results') > fails(results)
              => (retryTimers' = 1 /\ offline(messages') = offline(messages))
         /\ offline(messages') # offline(messages)
              => /\ offline(messages') = offline(messages) + 1
                 /\ retryTimers = 1 /\ retryTimers' = 0 ]_vars

\* Two turns failed one after the other, the second while the timer of the
\* first was pending; one timer is pending and no offline phrase was said.
SingleRetryTimerWitness ==
  /\ Len(results) = 2 /\ ~results[1].ok /\ ~results[2].ok
  /\ retryTimers = 1
  /\ \A i \in 1..Len(spoken) : spoken[i] # OfflinePhrase

\* C29: every transcript taken from the queue is handled, by the routine
\* branch or by a request to /api/chat; none is dropped by the entry check.
DequeuedIsHandled ==
  \A i \in 1..Len(turns) : turns[i].branch \in {"routine", "chat"}

\* C30: the routine and the step index sent with a request to /api/chat are
\* the session and the cursor of the store when the request is made.
RequestContextCurrent ==
  \A i \in 1..Len(turns) :
    turns[i].branch = "chat"
      => (turns[i].reqRoutine = turns[i].liveRoutine
          /\ turns[i].reqStep = turns[i].liveStep)

\* C25: a step in which the remote speech path of a call fails (response not
\* ok, network error, play() rejected, playback error) hands the same text
\* of the same call to local synthesis and does not raise the error flag; the
\* flag is raised only by a step in which local synthesis fails while
\* speaking, and then isSpeaking and isLoading are false; the caller of
\* speak() goes on as after a normal return (its catch block does not run: no
\* timer is armed, no filler is spoken).
SpeechFallback ==
  [][ /\ (TtsFails \/ AudioError)
          => /\ \E f \in speaks :
                  /\ f.stage \in {"fetch", "playing"}
                  /\ [f EXCEPT !.stage = "browser"] \in speaks'
             /\ ttsError' => ttsError
      /\ (ttsError' /\ ~ttsError)
          => /\ UtteranceFails
             /\ ~isSpeaking' /\ ~isLoading'
      /\ (UtteranceFails \/ UtteranceSettles)
          => /\ retryTimers' = retryTimers
             /\ \A i \in (Len(spoken) + 1)..Len(spoken') : spoken'[i] # Filler ]_vars

\* C22: when the 2 s timer of a touch gesture has fired on the mounted
\* controller, the avatar state is the value of the derivation for the
\* inputs of that moment (talking while the avatar speaks, listening while
\* it listens, waving while the help alert is shown, and so on).
TouchReverts ==
  [][ (TouchTimer /\ isMounted)
        => avatarState' = getAvatarState(
             [showHelpAlert |-> showHelpAlert', isSpeaking |-> rendered'.isSpeaking,
              isListening |-> rendered'.isListening, isProcessing |-> isProcessing',
              timeOfDay |-> TimeOfDay, frustrationLevel |-> frustrationLevel'] ) ]_vars

\* C31: in every reachable state at most one object URL of a remote-speech
\* audio blob is live, and a live URL is the one of the audio being played:
\* it has been revoked once playback ended or failed, play() was rejected,
\* stop() was called or a later speak() superseded it.
NoUrlLeak ==
  /\ Cardinality(liveUrls) <= 1
  /\ \A u \in liveUrls :
       /\ u = audioUrlRef
       /\ \E f \in speaks : f.sid = u /\ f.stage = "playing"

\* An audio that was playing has been paused, by stop() or by a later
\* speak(), and its URL is no longer live.
NoUrlLeakWitness ==
  \E f \in speaks : f.stage = "orphan" /\ f.sid \notin liveUrls

\* C32: every call of speak() settles: whenever promises returned by speak()
\* are pending, a state follows in which none is pending.
SpeakSettles == (speaks # {}) ~> (speaks = {})

\* C33: the speaking flag tracks playback: isSpeaking is true in every state
\* in which an utterance is being played, as remote audio or by local
\* synthesis, and false in every state in which none is.
SpeakingTracksPlayback ==
  isSpeaking <=> (\E f \in speaks : f.stage \in {"playing", "browser"})

\* C34: the steps of a turn whose call to /api/chat failed (the step that
\* handles the failure, and the step in which the turn returns after its
\* filler) leave the routine session, the step cursor, the frustration
\* counter, the frustration level and the help alert as they were and append
\* nothing to the log.
FailedTurnFrame ==
  [][ LET failedNow == /\ Len(results') > Len(results)
                       /\ ~results'[Len(results')].ok
          returnsNow == /\ \E h \in handlers : h.branch = "catch" /\ h \notin handlers'
                        /\ Len(turns') = Len(turns)
      IN (failedNow \/ returnsNow)
           => UNCHANGED <<currentRoutine, currentStepIndex, frustrationCount,
                          frustrationLevel, showHelpAlert, messages>> ]_vars

\* A turn of a routine session with the counter at 2 failed and has returned:
\* session, cursor and counter are those the turn found.
FailedTurnFrameWitness ==
  \E i \in 1..Len(results) :
    /\ isMounted
    /\ ~results[i].ok
    /\ \A h \in handlers : h.tid # results[i].tid
    /\ results[i].preRoutine # NoRoutine
    /\ currentRoutine = results[i].preRoutine
    /\ currentStepIndex = results[i].preStep
    /\ frustrationCount = 2

\* C35: for each client the chat route lets at most 30 requests and the
\* speech route at most 20 through in one window of a minute; a request is
\* answered 429 exactly when the client's window is open and full, and then
\* the upstream service is not called; the first request after the reset time
\* of a window (or with no window yet) is let through and leaves the record
\* at count 1 with a reset time one minute later.
RateLimiting ==
  LET r     == server.response
      limit == IF server.route = "chat" THEN 30 ELSE 20
  IN (server.route \in Routes /\ server.apiKey) =>
       /\ \A ip \in Ips :
            server.windows[ip] # NoRecord => server.windows[ip][1].admitted <= limit
       /\ r.status # 0 =>
            /\ (r.status = 429) <=> (~r.fresh /\ r.seen >= limit)
            /\ r.status = 429 => ~r.upstream
            /\ r.fresh =>
                 server.rateLimitMap[r.ip] = <<[count |-> 1, resetTime |-> server.now + 60000]>>

\* The thirty-first request of a client to the chat route, made at the very
\* reset time of its window, was answered 429.
RateLimitingWitness ==
  /\ server.route = "chat" /\ server.apiKey
  /\ server.response.status = 429 /\ server.response.seen = 30
  /\ server.now = server.windows[server.response.ip][1].opened + 60000

RecognitionErrors ==
  [][ \A cause \in RecognitionCauses :
        (/\ events' = events + 1
         /\ RecognitionError
         /\ Commit(onerror([Mem EXCEPT !.events = @ + 1], cause))) =>
          /\ recError' = (IF cause \in {"no-speech", "aborted"} THEN recError ELSE cause)
          /\ UNCHANGED <<transcriptQueue, isProcessingRef, isProcessing, handlers,
                         currentRoutine, currentStepIndex>> ]_vars

\* A network error was reported while a transcript was being handled in a
\* routine session, and the recognizer is still running.
RecognitionErrorsWitness ==
  /\ recError = "network" /\ cur.rec = "active"
  /\ isProcessingRef /\ currentRoutine # NoRoutine

\* C38: microphone off is respected.  From the caregiver's toggle to off until
\* the next toggle to on, no call of startListening() is made: the recognizer is
\* not wanted (no startListening() since the stopListening() of the toggle),
\* and in particular the end of a playback does not resume listening.
MicOffRespected == userMicOff => ~listenWanted

\* C39: cursor bounds.  In every state of the store the step cursor is 0 when
\* no routine is active and lies between 0 and the index of the last step of
\* the active routine otherwise; nextStep() therefore never moves it past the
\* last step and leaves it alone when no routine is active.
CursorBounds ==
  /\ currentRoutine = NoRoutine => currentStepIndex = 0
  /\ currentRoutine # NoRoutine =>
       /\ 0 <= currentStepIndex
       /\ currentStepIndex <= StepsLength(currentRoutine) - 1

\* A turn with progress whose handler saw an earlier step called nextStep()
\* while the store was already at the last step: the cursor stayed there.
CursorBoundsWitness ==
  \E k \in 1..Len(results) :
    /\ results[k].ok /\ results[k].progress
    /\ results[k].preRoutine # NoRoutine
    /\ results[k].postRoutine = results[k].preRoutine
    /\ results[k].preStep = StepsLength(results[k].preRoutine) - 1
    /\ results[k].postStep = results[k].preStep
    /\ currentRoutine = results[k].postRoutine
    /\ currentStepIndex = results[k].postStep
    /\ isMounted

(* ---------------- leaving the screen and coming back ---------------- *)
\* page.tsx renders Companion only while currentScreen = 'companion': the
\* settings button unmounts it (PIN screen) and the PIN screen's cancel mounts
\* a new instance.  The store (routine session, cursor, frustration level,
\* log, avatar state) is the same object; useState, useRef and the hooks of the
\* new instance start from their initial values, and the avatar effect runs
\* in the first commit.
remount(m) ==
  LET fresh == [m EXCEPT !.isProcessing = FALSE, !.showHelpAlert = FALSE,
                         !.micActive = FALSE, !.displayTranscript = 0,
                         !.transcriptQueue = <<>>, !.isProcessingRef = FALSE,
                         !.frustrationCount = 0, !.retryTimers = 0,
                         !.isMounted = TRUE,
                         !.isSpeaking = FALSE, !.isLoading = FALSE,
                         !.ttsError = FALSE, !.audioRef = 0, !.audioUrlRef = 0,
                         !.abortRef = 0,
                         !.isListening = FALSE, !.shouldBeListening = FALSE,
                         !.listenWanted = FALSE, !.recError = "none",
                         !.userMicOff = FALSE,
                         !.old = <<>>, !.greet = "timer",
                         !.rendered = [isSpeaking |-> FALSE, isListening |-> FALSE,
                                       micActive |-> FALSE]]
      bound == [fresh EXCEPT !.cur = Epoch(Snap(fresh))]
  IN [bound EXCEPT !.avatarState = getAvatarState(AvatarDeps(bound))]

\* The caregiver comes back from the PIN screen, once the instance that was
\* unmounted has nothing left in flight.
Remount ==
  /\ ~isMounted
  /\ handlers = {} /\ speaks = {} /\ touchTimers = <<>>
  /\ old = <<>> /\ cur.timer = <<>> /\ cur.rec = "idle"
  /\ greet # "inner"
  /\ Commit(remount(Mem))

SessionNext == Next \/ Remount

SessionSpec == Init /\ [][SessionNext]_vars

\* C40: level high implies help alert.  In every state the frustration level
\* is high only while the help alert is shown, and the avatar state is never
\* 'concerned'.
HighImpliesHelpAlert ==
  /\ frustrationLevel = "high" => showHelpAlert
  /\ avatarState # "concerned"

====
